---------------------------- MODULE Spec2Model ----------------------------
(***************************************************************************)
(* Model of the numerical core of the fps path solver:                     *)
(*   - simplex()  (src/src/simplex.cpp): projection onto the capped        *)
(*     simplex {0 <= z <= 1, sum z = d};                                   *)
(*   - admm()     (src/src/admm.h): the dense and the BlockMat overloads   *)
(*     of the projection/selection ADMM iteration;                         *)
(*   - block::map (src/src/block/map.h): gather / scatter of blocks;       *)
(*   - svps()     (src/src/svps.cpp): the solution path driver.            *)
(*                                                                         *)
(* A double is modelled by a rational <<num, den>> (den > 0, lowest terms). *)
(* Every arithmetic operation is rounded to nearest, ties to even, to      *)
(* fpbits significant bits (a double has 53); fpbits = 0 stands for exact  *)
(* arithmetic.  Exponents are unbounded: no overflow, no underflow.  Norms *)
(* are kept squared: sqrt is monotone on the non-negative reals, so        *)
(* r < tol is decided as r^2 < tol^2 and r > 10 s as r^2 > 100 s^2.        *)
(***************************************************************************)
EXTENDS Integers, Sequences, FiniteSets

VARIABLES
    fpbits,     \* significant bits of the arithmetic; 0: exact
    \* ---- simplex() ----
    spc,        \* simplex(): "call", returned by path "interior" / "search", or failed
    sx,         \* the vector x, overwritten in place by the projection
    sx0,        \* the value of x at the call (history)
    sd,         \* the target sum d
    interior,   \* the interior flag
    knots,      \* the sorted, deduplicated knot vector
    t,          \* index in knots (1-based) of the pointer t; Len+1 is end()
    theta,      \* the interpolated shift (0 on the interior path)
    rank,       \* the value returned
    \* ---- admm() ----
    prm,        \* the arguments shared by the two admm calls under comparison
    runs,       \* slot -> state of one admm call
    \* ---- svps() ----
    drv         \* the state of the path driver

svars == <<spc, sx, sx0, sd, interior, knots, t, theta, rank>>
vars  == <<fpbits, spc, sx, sx0, sd, interior, knots, t, theta, rank, prm,
           runs, drv>>

----------------------------------------------------------------------------
(* Rational arithmetic standing for double arithmetic.                     *)

Abs(n) == IF n < 0 THEN -n ELSE n

RECURSIVE GCD(_, _)
GCD(a, b) == IF b = 0 THEN a ELSE GCD(b, a % b)

\* n/d divided through by the common factor g.
Quot(n, d, g) == <<n \div g, d \div g>>

\* The rational n/d in lowest terms with a positive denominator (d # 0).
R(n, d) == Quot(IF d < 0 THEN -n ELSE n, Abs(d), GCD(Abs(n), Abs(d)))

I(n) == <<n, 1>>

\* a / d scaled by a power of two into [2^(p-1), 2^p): <<a, d, e>> with the
\* value of the argument equal to (a / d) * 2^e.
RECURSIVE Scale(_, _, _, _)
Scale(a, d, e, p) ==
    IF a \div (2 ^ p) >= d THEN Scale(a, 2 * d, e + 1, p)
    ELSE IF a \div (2 ^ (p - 1)) < d THEN Scale(2 * a, d, e - 1, p)
    ELSE <<a, d, e>>

\* The mantissa m0 with remainder rem / den, to nearest, ties to even.
Nearest(m0, rem, den) ==
    IF 2 * rem > den \/ (2 * rem = den /\ m0 % 2 = 1) THEN m0 + 1 ELSE m0

\* The value m * 2^e.
Pack(m, e) == IF e >= 0 THEN R(m * (2 ^ e), 1) ELSE R(m, 2 ^ (-e))

\* The scaled magnitude sc = <<a, d, e>> with sign sg, rounded.
RoundScaled(sc, sg) ==
    Pack(sg * Nearest(sc[1] \div sc[2], sc[1] % sc[2], sc[2]), sc[3])

\* q rounded to p significant bits, to nearest, ties to even.
Round(q, p) ==
    IF q[1] = 0 THEN q
    ELSE RoundScaled(Scale(Abs(q[1]), q[2], 0, p),
                     IF q[1] < 0 THEN -1 ELSE 1)

\* The result of one arithmetic operation, as stored.
Fl(q) == IF fpbits = 0 THEN q ELSE Round(q, fpbits)

\* The operations on a common denominator a[2] * b[2] / g, g dividing both
\* denominators, and on factors cancelled crosswise (g | a[1], b[2] and
\* h | b[1], a[2]): the same values from smaller integers.
AddOver(a, b, g) ==
    Fl(R(a[1] * (b[2] \div g) + b[1] * (a[2] \div g), (a[2] \div g) * b[2]))
SubOver(a, b, g) ==
    Fl(R(a[1] * (b[2] \div g) - b[1] * (a[2] \div g), (a[2] \div g) * b[2]))
MulOver(a, b, g, h) ==
    Fl(R((a[1] \div g) * (b[1] \div h), (a[2] \div h) * (b[2] \div g)))
LtOver(a, b, g) == a[1] * (b[2] \div g) < b[1] * (a[2] \div g)
LeOver(a, b, g) == a[1] * (b[2] \div g) <= b[1] * (a[2] \div g)

RAdd(a, b) == AddOver(a, b, GCD(a[2], b[2]))
RSub(a, b) == SubOver(a, b, GCD(a[2], b[2]))
RMul(a, b) == MulOver(a, b, GCD(Abs(a[1]), b[2]), GCD(Abs(b[1]), a[2]))
RDiv(a, b) == RMul(a, R(b[2], b[1]))
RLt(a, b)  == LtOver(a, b, GCD(a[2], b[2]))
RLe(a, b)  == LeOver(a, b, GCD(a[2], b[2]))
RGt(a, b)  == RLt(b, a)
RGe(a, b)  == RLe(b, a)
RNeg(a)    == <<-a[1], a[2]>>
RAbs(a)    == <<Abs(a[1]), a[2]>>

Zero == I(0)
One  == I(1)

\* The entries of s from index k on, added to y one after the other.
RECURSIVE SumFrom(_, _, _)
SumFrom(s, k, y) ==
    IF k > Len(s) THEN y ELSE SumFrom(s, k + 1, RAdd(y, s[k]))

SumSeq(s) == SumFrom(s, 1, Zero)

----------------------------------------------------------------------------
(* simplex.cpp                                                             *)

\* One step of the loop of simplex_sum: y after the entry z of x.
simplex_sum_step(y, z) ==
    IF RGt(z, One) THEN RAdd(y, One)
    ELSE IF RGt(z, Zero) THEN RAdd(y, z)
    ELSE y

\* The loop of simplex_sum from entry k on, y accumulated so far.
RECURSIVE simplex_sum_loop(_, _, _, _)
simplex_sum_loop(x, th, k, y) ==
    IF k > Len(x) THEN y
    ELSE simplex_sum_loop(x, th, k + 1,
                          simplex_sum_step(y, RSub(x[k], th)))

\* simplex_sum: the loop over x, accumulating from y = 0.0.
simplex_sum(x, th) == simplex_sum_loop(x, th, 1, Zero)

\* simplex_compare with > in place of >=.
simplex_compare_gt(x, tk, z) == RGt(simplex_sum(x, tk), z)

\* simplex_compare::operator(): the predicate handed to lower_bound.
simplex_compare(x, tk, z) == RGe(simplex_sum(x, tk), z)

\* The least element of a non-empty finite set of rationals.
MinOf(S) == CHOOSE m \in S : \A o \in S : RLe(m, o)

RECURSIVE SortAsc(_)
SortAsc(S) == IF S = {} THEN <<>> ELSE <<MinOf(S)>> \o SortAsc(S \ {MinOf(S)})

\* unique(join_vert(x - 1.0, x)): distinct values in ascending order.
Knots(x) ==
    SortAsc({RSub(x[i], One) : i \in 1..Len(x)} \cup {x[i] : i \in 1..Len(x)})

\* std::lower_bound(first, first + len, d, comp): the bisection of the
\* standard library, returning the position it stops at.
RECURSIVE lower_bound(_, _, _, _, _)
lower_bound(kn, first, len, d, x) ==
    IF len <= 0 THEN first
    ELSE LET half   == len \div 2
             middle == first + half
         IN  IF simplex_compare(x, kn[middle], d)
             THEN lower_bound(kn, middle + 1, len - half - 1, d, x)
             ELSE lower_bound(kn, first, half, d, x)

\* t[-1] and t[0] are elements of knots.
BracketInRange(kn, ti) == ti - 1 >= 1 /\ ti <= Len(kn)

\* theta with the slope taken upside down.
Interpolate_flip(a, b, fa, fb, d) ==
    RAdd(a, RDiv(RMul(RSub(b, a), RSub(d, fa)), RSub(fa, fb)))

\* theta = a + (b-a) * (d-fa) / (fb-fa)
Interpolate(a, b, fa, fb, d) ==
    RAdd(a, RDiv(RMul(RSub(b, a), RSub(d, fa)), RSub(fb, fa)))

\* The transform counting only the entries left strictly inside (0,1).
TransformStrict(v, th) ==
    LET e == RSub(v, th)
    IN  IF RGt(e, One) THEN <<One, FALSE>>
        ELSE IF RLe(e, Zero) THEN <<Zero, FALSE>>
        ELSE <<e, e # One>>

\* The lambda handed to x.transform, on one entry shifted by th:
\* <<new value, whether ++rank ran>>.
Transform(v, th) ==
    LET e == RSub(v, th)
    IN  IF RGt(e, One) THEN <<One, TRUE>>
        ELSE IF RLt(e, Zero) THEN <<Zero, FALSE>>
        ELSE <<e, TRUE>>

TransformAll(x, th) == [i \in 1..Len(x) |-> Transform(x[i], th)[1]]

RECURSIVE RankOf(_, _)
RankOf(x, th) ==
    IF x = <<>> THEN 0
    ELSE (IF Transform(x[1], th)[2] THEN 1 ELSE 0) + RankOf(Tail(x), th)


\* simplex(x, d, interior) as a function of its arguments: how it ended
\* (st), the vector left in x, the value returned and the locals the search
\* leaves.  Reading t[-1] or t[0] outside the knot vector is undefined
\* behaviour and dividing by fb - fa = 0 yields no finite theta: each ends
\* in a status of its own, standing for whatever the build then does.
simplex(x, d, fl) ==
    IF fl /\ RLe(simplex_sum(x, Zero), d)
    THEN [st |-> "interior", x |-> TransformAll(x, Zero),
          rank |-> RankOf(x, Zero), knots |-> <<>>, t |-> 0, theta |-> Zero]
    ELSE LET kn == Knots(x)
             ti == lower_bound(kn, 1, Len(kn), d, x)
         IN  IF ~BracketInRange(kn, ti)
             THEN [st |-> "out_of_range", x |-> x, rank |-> 0,
                   knots |-> kn, t |-> ti, theta |-> Zero]
             ELSE LET a  == kn[ti - 1]
                      b  == kn[ti]
                      fa == simplex_sum(x, a)
                      fb == simplex_sum(x, b)
                  IN  IF fb = fa
                      THEN [st |-> "div_zero", x |-> x, rank |-> 0,
                            knots |-> kn, t |-> ti, theta |-> Zero]
                      ELSE LET th == Interpolate(a, b, fa, fb, d)
                           IN  [st |-> "search", x |-> TransformAll(x, th),
                                rank |-> RankOf(x, th), knots |-> kn,
                                t |-> ti, theta |-> th]

MaxLen == 3
MantissaBits == 5

\* The arithmetics checked: exact, and rounded to MantissaBits bits.
Arithmetics == {0, MantissaBits}

\* Entries of the vectors handed to simplex(); the last is the least power
\* of two whose predecessor has no representation in MantissaBits bits
\* (2^54 for a double).
XVals == {I(-1), I(0), R(1, 2), I(1), R(3, 2), R(5, 2),
          I(2 ^ (MantissaBits + 1))}

SimplexIdle ==
    /\ spc = "off" /\ sx = <<>> /\ sx0 = <<>> /\ sd = Zero
    /\ interior = FALSE /\ knots = <<>> /\ t = 0 /\ theta = Zero /\ rank = 0

\* A call simplex(x, d, interior): x of length 1..MaxLen, d a multiple of
\* 1/2 in [0, n].
SimplexCall ==
    \E n \in 1..MaxLen :
      \E x \in [1..n -> XVals], k \in 0..(2 * n), fl \in BOOLEAN,
         fp \in Arithmetics :
        /\ fpbits = fp
        /\ spc = "call" /\ sx = x /\ sx0 = x /\ sd = R(k, 2)
        /\ interior = fl /\ knots = <<>> /\ t = 0 /\ theta = Zero /\ rank = 0

\* simplex(): the interior branch (lines 49-61).
SimplexInterior ==
    /\ spc = "call"
    /\ interior /\ RLe(simplex_sum(sx, Zero), sd)
    /\ LET r == simplex(sx, sd, interior)
       IN  /\ sx' = r.x
           /\ rank' = r.rank
           /\ spc' = r.st
    /\ UNCHANGED <<fpbits, sx0, sd, interior, knots, t, theta>>

\* simplex(): knots, search, interpolation and projection (lines 63-93).
SimplexSearch ==
    /\ spc = "call"
    /\ ~(interior /\ RLe(simplex_sum(sx, Zero), sd))
    /\ LET r == simplex(sx, sd, interior)
       IN  /\ knots' = r.knots
           /\ t' = r.t
           /\ theta' = r.theta
           /\ sx' = r.x
           /\ rank' = r.rank
           /\ spc' = r.st
    /\ UNCHANGED <<fpbits, sx0, sd, interior>>

----------------------------------------------------------------------------
(* Matrices: an n_rows x n_cols matrix is the sequence of its entries in   *)
(* column-major order, as Armadillo stores it.                             *)

n_rows == 2
n_cols == 2

NEntries == n_rows * n_cols

VAdd(a, b) == [i \in 1..Len(a) |-> RAdd(a[i], b[i])]
VSub(a, b) == [i \in 1..Len(a) |-> RSub(a[i], b[i])]
VMulS(a, c) == [i \in 1..Len(a) |-> RMul(a[i], c)]
VDivS(a, c) == [i \in 1..Len(a) |-> RDiv(a[i], c)]

\* arma::accu(arma::square(a))
AccuSquare(a) == SumSeq([i \in 1..Len(a) |-> RMul(a[i], a[i])])

RECURSIVE Concat(_)
Concat(ss) == IF ss = <<>> THEN <<>> ELSE ss[1] \o Concat(Tail(ss))

----------------------------------------------------------------------------
(* block/map.h                                                             *)

\* X.submat(rows, cols): rows and cols are 0-based index vectors.
Submat(X, rows, cols) ==
    Concat([c \in 1..Len(cols) |->
              [r \in 1..Len(rows) |-> X[rows[r] + n_rows * cols[c] + 1]]])

\* map::map(X, indexmap): one copied sub-matrix per entry of the index map.
BlockMap(X, indexmap) ==
    [b \in 1..Len(indexmap) |-> Submat(X, indexmap[b][1], indexmap[b][2])]

\* The position in the dense matrix of entry k (1-based) of a block.
EntryPos(rows, cols, k) ==
    rows[((k - 1) % Len(rows)) + 1] + n_rows * cols[((k - 1) \div Len(rows)) + 1] + 1

\* map::copy_to(X, indexmap): X.submat(rows, cols) = block, block by block;
\* entries outside every block keep their value.
RECURSIVE CopyTo(_, _, _)
CopyTo(blocks, X, indexmap) ==
    IF blocks = <<>> THEN X
    ELSE LET rows == indexmap[1][1]
             cols == indexmap[1][2]
             B    == blocks[1]
             Y    == [p \in 1..Len(X) |->
                        IF \E k \in 1..Len(B) : EntryPos(rows, cols, k) = p
                        THEN B[CHOOSE k \in 1..Len(B) : EntryPos(rows, cols, k) = p]
                        ELSE X[p]]
         IN  CopyTo(Tail(blocks), Y, Tail(indexmap))

\* The partitions used: the single block covering the whole matrix, and two
\* 1 x 1 blocks on the diagonal.
PartWhole == << << <<0, 1>>, <<0, 1>> >> >>
PartDiag  == << << <<0>>, <<0>> >>, << <<1>>, <<1>> >> >>

----------------------------------------------------------------------------
(* The functors handed to admm().                                          *)

\* projection(x) on a dense matrix: projection of its entries onto the
\* capped simplex of sum ndim.
Projection(x, ndim, fl) == simplex(x, ndim, fl).x

\* Cut the sequence v into consecutive pieces of the lengths of like.
RECURSIVE SplitLike(_, _)
SplitLike(v, like) ==
    IF like = <<>> THEN <<>>
    ELSE <<SubSeq(v, 1, Len(like[1]))>>
            \o SplitLike(SubSeq(v, Len(like[1]) + 1, Len(v)), Tail(like))

\* projection(x) on a BlockMat: the joint projection of the entries of all
\* blocks (simplex over a list of vectors).
ProjectionBlocks(bx, ndim, fl) == SplitLike(Projection(Concat(bx), ndim, fl), bx)

SoftThreshold(v, thr) ==
    IF RGt(v, thr) THEN RSub(v, thr)
    ELSE IF RLt(v, RNeg(thr)) THEN RAdd(v, thr)
    ELSE Zero

\* selection(z, scale): entrywise soft-thresholding at lambda * scale.
Selection(z, scale, lambda) ==
    [i \in 1..Len(z) |-> SoftThreshold(z[i], RMul(lambda, scale))]

SelectionBlocks(bz, scale, lambda) ==
    [b \in 1..Len(bz) |-> Selection(bz[b], scale, lambda)]

----------------------------------------------------------------------------
(* admm.h                                                                  *)

\* The convergence test with || in place of &&.
Converged_or(rr2, ss2, tol2) == RLt(rr2, tol2) \/ RLt(ss2, tol2)

\* rr < tolerance && ss < tolerance, on the squares (tolerance > 0).
Converged(rr2, ss2, tol2) == RLt(rr2, tol2) /\ RLt(ss2, tol2)

\* The two tests of the penalty adjustment taken in the other order of
\* their effects.
PenaltyBranch_swapped(rr2, ss2) ==
    IF RGt(ss2, RMul(I(100), rr2)) THEN "up"
    ELSE IF RGt(rr2, RMul(I(100), ss2)) THEN "down"
    ELSE "none"

\* if (rr > 10.0 * ss) ... else if (ss > 10.0 * rr) ..., on the squares.
PenaltyBranch(rr2, ss2) ==
    IF RGt(rr2, RMul(I(100), ss2)) THEN "up"
    ELSE IF RGt(ss2, RMul(I(100), rr2)) THEN "down"
    ELSE "none"

\* The penalty adjusted by adding and subtracting the factor.
AdjustPenalty_additive(branch, penalty, adjust) ==
    IF branch = "up" THEN RAdd(penalty, adjust)
    ELSE IF branch = "down" THEN RSub(penalty, adjust)
    ELSE penalty

\* admm_penalty = admm_penalty * admm_adjust  /  admm_penalty / admm_adjust
AdjustPenalty(branch, penalty, adjust) ==
    IF branch = "up" THEN RMul(penalty, adjust)
    ELSE IF branch = "down" THEN RDiv(penalty, adjust)
    ELSE penalty

\* The rescaling of u left out.
AdjustU_skipped(branch, u, adjust) == u

\* u = u / admm_adjust  /  u = u * admm_adjust  (dense)
AdjustU(branch, u, adjust) ==
    IF branch = "up" THEN VDivS(u, adjust)
    ELSE IF branch = "down" THEN VMulS(u, adjust)
    ELSE u

\* for (auto& d : data) { *d.u /= admm_adjust; }  /  *= admm_adjust  (blocks)
AdjustUBlocks(branch, bu, adjust) ==
    [b \in 1..Len(bu) |->
        IF branch = "up" THEN VDivS(bu[b], adjust)
        ELSE IF branch = "down" THEN VMulS(bu[b], adjust)
        ELSE bu[b]]

\* The loop running one more time.
LoopAgain_le(niter, maxiter) == niter <= maxiter

\* while (niter++ < maxiter): the test, on niter before the increment.
LoopAgain(niter, maxiter) == niter < maxiter

\* The bound returned in place of the count.
ReturnCount_bound(niter, maxiter) == maxiter

\* return niter;
ReturnCount(niter, maxiter) == niter

\* From the convergence test to the end of one pass of the do-while loop
\* (lines 75-89 and 141-155), given what the pass computed: the call
\* returns niter, or adjusts and loops, or leaves the loop and returns -1.
LoopTail(st, P, x, z, u, rr2, ss2) ==
    LET conv   == Converged(rr2, ss2, P.tol2)
        branch == IF conv THEN "return" ELSE PenaltyBranch(rr2, ss2)
        pen    == IF conv THEN st.penalty
                  ELSE AdjustPenalty(branch, st.penalty, P.adjust)
        u2     == IF conv THEN u
                  ELSE IF st.kind = "dense" THEN AdjustU(branch, u, P.adjust)
                  ELSE AdjustUBlocks(branch, u, P.adjust)
        h      == [pen0 |-> st.penalty, z0 |-> st.z, u0 |-> st.u, x |-> x, zsel |-> z, udual |-> u,
                   rr2 |-> rr2, ss2 |-> ss2, branch |-> branch,
                   z |-> z, u |-> u2, pen |-> pen]
        again  == ~conv /\ LoopAgain(st.niter, st.maxiter)
    IN  [st EXCEPT
            !.z = z, !.u = u2, !.penalty = pen,
            !.hist = Append(st.hist, h),
            !.niter = IF conv THEN st.niter ELSE st.niter + 1,
            !.pc = IF again THEN "loop" ELSE "returned",
            !.ret = IF conv THEN ReturnCount(st.niter, st.maxiter)
                    ELSE IF again THEN 0 ELSE -1]

\* The dual update replacing u instead of adding to it.
BlockDual_assign(bu, bx, bz) == [b \in 1..Len(bu) |-> VSub(bx[b], bz[b])]

\* for (auto& d : data) { *d.u += *d.x - *d.z; }
BlockDual(bu, bx, bz) ==
    [b \in 1..Len(bu) |-> VAdd(bu[b], VSub(bx[b], bz[b]))]

\* One pass of the loop of the dense overload (lines 56-86).
DensePass(st, P) ==
    LET z_old == st.z
        x     == Projection(VAdd(VSub(st.z, st.u), VDivS(P.input, st.penalty)),
                            P.ndim, P.fl)
        z     == Selection(VAdd(x, st.u), RDiv(One, st.penalty), P.lambda)
        u     == VSub(VAdd(st.u, x), z)
        rr2   == AccuSquare(VSub(x, z))
        ss2   == RMul(RMul(st.penalty, st.penalty), AccuSquare(VSub(z, z_old)))
    IN  LoopTail(st, P, x, z, u, rr2, ss2)

\* One pass of the loop of the BlockMat overload (lines 117-152); binput is
\* the block matrix input.
BlockPass(st, P, binput) ==
    LET nb    == Len(binput)
        z_old == st.z
        x0    == [b \in 1..nb |->
                    VAdd(VSub(st.z[b], st.u[b]), VDivS(binput[b], st.penalty))]
        x     == ProjectionBlocks(x0, P.ndim, P.fl)
        z     == SelectionBlocks([b \in 1..nb |-> VAdd(x[b], st.u[b])],
                                 RDiv(One, st.penalty), P.lambda)
        u     == BlockDual(st.u, x, z)
        rr2   == SumSeq([b \in 1..nb |-> AccuSquare(VSub(x[b], z[b]))])
        ss2   == RMul(RMul(st.penalty, st.penalty),
                      SumSeq([b \in 1..nb |-> AccuSquare(VSub(z[b], z_old[b]))]))
    IN  LoopTail(st, P, x, z, u, rr2, ss2)

\* The state of a call at its first pass: niter = 1.
AdmmEntry(kind, maxiter, z, u, penalty) ==
    [kind |-> kind, maxiter |-> maxiter, z |-> z, u |-> u, penalty |-> penalty,
     niter |-> 1, pc |-> "loop", ret |-> 0, hist |-> <<>>]

MaxIter == 2

\* Arguments of the admm calls.
Inputs ==
    { <<I(2), I(0), I(0), I(1)>>, <<I(1), I(1), I(1), I(1)>>,
      <<I(2), I(2), I(1), I(0)>> }
ZeroMat == [i \in 1..NEntries |-> Zero]
Starts ==
    { <<ZeroMat, ZeroMat>>,
      <<<<I(1), I(0), I(0), R(1, 2)>>, <<R(1, 2), I(0), I(0), R(-1, 2)>>>> }
Penalties == {R(1, 2), I(1), I(2)}
Adjusts == {I(2), I(3)}
Tol2s == {R(1, 4), I(1)}
Lambdas == {I(0), R(1, 2)}
Ndims == {I(1), R(3, 2)}
Partitions == {PartWhole, PartDiag}
\* The two calls compared: the two overloads with the same maxiter, or one
\* overload with maxiter M and 2M.  The partition matters to the BlockMat
\* overload only: the dense overload is paired with the single block.
Pairs == { <<"dense", "block", 1>>, <<"dense", "dense", 2>>,
           <<"block", "block", 2>> }

AdmmCall(P, kind, maxiter) ==
    IF kind = "dense"
    THEN AdmmEntry(kind, maxiter, P.z0, P.u0, P.penalty0)
    ELSE AdmmEntry(kind, maxiter, BlockMap(P.z0, P.part),
                   BlockMap(P.u0, P.part), P.penalty0)

InitAdmm ==
    /\ SimplexIdle
    /\ drv = <<>>
    /\ fpbits \in Arithmetics
    /\ \E inp \in Inputs, zu \in Starts, pen \in Penalties, adj \in Adjusts,
          tol2 \in Tol2s, lam \in Lambdas, nd \in Ndims, fl \in BOOLEAN,
          part \in Partitions, pair \in Pairs, M \in 1..MaxIter :
         /\ part # PartWhole => pair[1] = "block"
         /\ prm = [input |-> inp, z0 |-> zu[1], u0 |-> zu[2], penalty0 |-> pen,
                   adjust |-> adj, tol2 |-> tol2, lambda |-> lam, ndim |-> nd,
                   fl |-> fl, part |-> part, pair |-> pair, M |-> M]
         /\ runs = << AdmmCall(prm, pair[1], M),
                      AdmmCall(prm, pair[2], pair[3] * M) >>

\* The second call starts when the first has returned.
Turn(s) == runs[s].pc = "loop" /\ (s = 2 => runs[1].pc = "returned")

\* One pass of the loop of admm (dense).
DenseIter(s) ==
    /\ Turn(s)
    /\ runs[s].kind = "dense"
    /\ runs' = [runs EXCEPT ![s] = DensePass(runs[s], prm)]
    /\ UNCHANGED <<fpbits, prm, drv, svars>>

\* One pass of the loop of admm (BlockMat).
BlockIter(s) ==
    /\ Turn(s)
    /\ runs[s].kind = "block"
    /\ runs' = [runs EXCEPT
                  ![s] = BlockPass(runs[s], prm, BlockMap(prm.input, prm.part))]
    /\ UNCHANGED <<fpbits, prm, drv, svars>>

NextAdmm == \E s \in 1..2 : DenseIter(s) \/ BlockIter(s)

SpecAdmm == InitAdmm /\ [][NextAdmm]_vars

----------------------------------------------------------------------------
(* svps.cpp                                                                *)

\* The path stopping at the first solve that did not converge.
PathGoesOn_stop(i, nsol, ret) == i + 1 < nsol /\ ret # -1

\* for (unsigned int i = 0; i < nsol; ++i): whether the loop runs again after
\* the pass for index i, whose solve returned ret.
PathGoesOn(i, nsol, ret) == i + 1 < nsol

\* The largest element of a non-empty sequence, by position.
MaxPos(q) == CHOOSE i \in 1..Len(q) : \A j \in 1..Len(q) : RGe(q[i], q[j])

Without(q, i) == SubSeq(q, 1, i - 1) \o SubSeq(q, i + 1, Len(q))

\* std::sort(_lambda.begin(), _lambda.end(), std::greater<double>())
RECURSIVE SortDesc(_)
SortDesc(q) ==
    IF q = <<>> THEN <<>>
    ELSE <<q[MaxPos(q)]>> \o SortDesc(Without(q, MaxPos(q)))

\* The graph sequence: (threshold, partition) entries by descending
\* threshold, the first at infinity; thresholds below it are positive.
GraphSeqs ==
    { << [first |-> "inf", second |-> PartDiag] >>,
      << [first |-> "inf", second |-> PartDiag],
         [first |-> I(1), second |-> PartWhole] >>,
      << [first |-> "inf", second |-> PartDiag],
         [first |-> I(2), second |-> PartDiag],
         [first |-> R(1, 2), second |-> PartWhole] >> }

\* gs.get_active(lambda): the partition of the first entry whose threshold
\* is <= lambda, the last partition when there is none.
get_active(gs, lambda) ==
    LET hits == {k \in 1..Len(gs) :
                    gs[k].first # "inf" /\ RLe(gs[k].first, lambda)}
    IN  IF hits = {} THEN gs[Len(gs)].second
        ELSE gs[CHOOSE k \in hits : \A o \in hits : k <= o].second

\* admm_penalty = gs.size() > 1 ? (++gs.cbegin())->first : 1.0
InitialPenalty(gs) == IF Len(gs) > 1 THEN gs[2].first ELSE One

\* admm_adjust = 2.0
admm_adjust == I(2)

\* Entry (r, c), 0-based, of a column-major matrix with nr rows.
At(X, nr, r, c) == X[r + nr * c + 1]

\* accu(square(A.t() * B)) for nr x nc matrices A and B.
AccuSquareTMul(A, B, nr, nc) ==
    SumSeq(Concat([a \in 1..nc |-> [b \in 1..nc |->
        LET e == SumSeq([r \in 1..nr |->
                           RMul(At(A, nr, r - 1, a - 1), At(B, nr, r - 1, b - 1))])
        IN  RMul(e, e)]]))

\* accu(square(A * B.t())) for nr x nc matrices A and B.
AccuSquareMulT(A, B, nr, nc) ==
    SumSeq(Concat([a \in 1..nr |-> [b \in 1..nr |->
        LET e == SumSeq([c \in 1..nc |->
                           RMul(At(A, nr, a - 1, c - 1), At(B, nr, b - 1, c - 1))])
        IN  RMul(e, e)]]))

\* norm(vectorise(Z), 1)
SumAbs(Z) == SumSeq([k \in 1..Len(Z) |-> RAbs(Z[k])])

\* block::sumabs, block::dotsquare, block::tdotsquare: the sum over the
\* blocks of the dense quantity.
BlockSumAbs(bz) == SumSeq([b \in 1..Len(bz) |-> SumAbs(bz[b])])
BlockDotSquare(bx, bz, part) ==
    SumSeq([b \in 1..Len(bz) |->
        AccuSquareTMul(bx[b], bz[b], Len(part[b][1]), Len(part[b][2]))])
BlockTDotSquare(bx, bz, part) ==
    SumSeq([b \in 1..Len(bz) |->
        AccuSquareMulT(bx[b], bz[b], Len(part[b][1]), Len(part[b][2]))])

\* vectorise(sum(square(P), 1)) and vectorise(sum(square(P), 0))
LeverageRow(P) ==
    [r \in 1..n_rows |->
        SumSeq([c \in 1..n_cols |->
                  RMul(At(P, n_rows, r - 1, c - 1), At(P, n_rows, r - 1, c - 1))])]
LeverageCol(P) ==
    [c \in 1..n_cols |->
        SumSeq([r \in 1..n_rows |->
                  RMul(At(P, n_rows, r - 1, c - 1), At(P, n_rows, r - 1, c - 1))])]

\* The arguments admm receives from the pass for index i (0-based):
\* SingularValueProjection(ndim), EntrywiseSoftThreshold(_lambda[i]),
\* admm_adjust, maxiter, tolerance_abs.
PathArgs(D) ==
    [input |-> D.x, adjust |-> D.admm_adjust, tol2 |-> D.tol2,
     lambda |-> D.lambda[D.i + 1], ndim |-> D.ndim, fl |-> D.fl]

\* The pass for index i up to the entry of admm, built with the graph
\* optimisation (lines 184-200): the active partition, the block matrices.
SvpsBlockEnter(D) ==
    LET active == get_active(D.gs, D.lambda[D.i + 1])
    IN  [D EXCEPT
            !.pc = "admm",
            !.active = active,
            !.call = AdmmEntry("block", D.maxiter, BlockMap(D.z, active),
                               BlockMap(D.u, active), D.admm_penalty)]

\* The same built with FPS_DONT_USE_GRAPH_OPTIMIZATION (lines 165-169).
SvpsDenseEnter(D) ==
    [D EXCEPT
        !.pc = "admm",
        !.active = PartWhole,
        !.call = AdmmEntry("dense", D.maxiter, D.z, D.u, D.admm_penalty)]

\* The outputs of the pass for index i appended, and the loop advanced.
Stored(D, zd, ud, proj, l1, vr, vc) ==
    [D EXCEPT
        !.z = zd, !.u = ud, !.admm_penalty = D.call.penalty,
        !.niter = Append(D.niter, D.call.ret),
        !.projection = Append(D.projection, proj),
        !.L1 = Append(D.L1, l1),
        !.var_row = Append(D.var_row, vr),
        !.var_col = Append(D.var_col, vc),
        !.leverage_row = Append(D.leverage_row, LeverageRow(proj)),
        !.leverage_col = Append(D.leverage_col, LeverageCol(proj)),
        !.solves = Append(D.solves,
                          [lambda |-> D.lambda[D.i + 1], active |-> D.active,
                           z_in |-> D.z, u_in |-> D.u, pen_in |-> D.admm_penalty,
                           call |-> D.call]),
        !.i = D.i + 1,
        !.pc = IF PathGoesOn(D.i, D.nsol, D.call.ret) THEN "loop" ELSE "done"]

\* b_u.copy_to(_u)
RestoreU(bu, ud, active) == CopyTo(bu, ud, active)

\* The pass for index i from the return of admm (lines 194-217).
SvpsBlockStore(D) ==
    LET b_x  == BlockMap(D.x, D.active)
        b_z  == D.call.z
        proj == CopyTo(b_z, [k \in 1..NEntries |-> Zero], D.active)
    IN  Stored(D, CopyTo(b_z, D.z, D.active), RestoreU(D.call.u, D.u, D.active),
               proj, BlockSumAbs(b_z), BlockDotSquare(b_x, b_z, D.active),
               BlockTDotSquare(b_x, b_z, D.active))

\* The same built with FPS_DONT_USE_GRAPH_OPTIMIZATION (lines 166-182).
SvpsDenseStore(D) ==
    Stored(D, D.call.z, D.call.u, D.call.z, SumAbs(D.call.z),
           AccuSquareTMul(D.x, D.call.z, n_rows, n_cols),
           AccuSquareMulT(D.x, D.call.z, n_rows, n_cols))

MaxSol == 2

\* The arguments of svps.
PathInputs == { <<I(2), I(0), I(0), I(1)>>, <<I(2), I(2), I(1), I(0)>> }
LambdaVals == {R(1, 4), R(1, 2), I(1)}
\* lambda as handed to svps: 1..MaxSol values in any order.
LambdaArgs == UNION {[1..n -> LambdaVals] : n \in 1..MaxSol}
Tolerances == {R(1, 2)}

\* svps up to the loop (lines 92-158): the checks passed, lambda sorted,
\* the graph sequence built, _z = _u = 0.
InitPath ==
    /\ SimplexIdle
    /\ prm = <<>> /\ runs = <<>>
    /\ fpbits \in Arithmetics
    /\ \E x \in PathInputs, nd \in Ndims, lam \in LambdaArgs,
          mi \in 1..MaxIter, tol \in Tolerances, gs \in GraphSeqs,
          opt \in BOOLEAN :
         drv = [x |-> x, ndim |-> nd, lambda |-> SortDesc(lam),
                nsol |-> Len(lam), maxiter |-> mi,
                tol2 |-> RMul(nd, RMul(tol, tol)), gs |-> gs, fl |-> TRUE,
                graph_optimization |-> opt,
                z |-> [k \in 1..NEntries |-> Zero],
                u |-> [k \in 1..NEntries |-> Zero],
                penalty0 |-> InitialPenalty(gs),
                admm_penalty |-> InitialPenalty(gs),
                admm_adjust |-> admm_adjust,
                i |-> 0, pc |-> "loop", active |-> <<>>, call |-> <<>>,
                niter |-> <<>>, projection |-> <<>>, L1 |-> <<>>,
                var_row |-> <<>>, var_col |-> <<>>,
                leverage_row |-> <<>>, leverage_col |-> <<>>,
                solves |-> <<>>]

PathFrame == UNCHANGED <<fpbits, prm, runs, svars>>

\* The loop body up to the call of admm.
SvpsEnter ==
    /\ drv.pc = "loop"
    /\ drv' = IF drv.graph_optimization THEN SvpsBlockEnter(drv)
              ELSE SvpsDenseEnter(drv)
    /\ PathFrame

\* One pass of the loop of the admm call in progress (BlockMat).
SvpsAdmmBlock ==
    /\ drv.pc = "admm" /\ drv.call.pc = "loop" /\ drv.call.kind = "block"
    /\ drv' = [drv EXCEPT
                 !.call = BlockPass(drv.call, PathArgs(drv),
                                    BlockMap(drv.x, drv.active))]
    /\ PathFrame

\* One pass of the loop of the admm call in progress (dense).
SvpsAdmmDense ==
    /\ drv.pc = "admm" /\ drv.call.pc = "loop" /\ drv.call.kind = "dense"
    /\ drv' = [drv EXCEPT !.call = DensePass(drv.call, PathArgs(drv))]
    /\ PathFrame

\* The loop body from the return of admm to the end, and ++i.
SvpsStore ==
    /\ drv.pc = "admm" /\ drv.call.pc = "returned"
    /\ drv' = IF drv.graph_optimization THEN SvpsBlockStore(drv)
              ELSE SvpsDenseStore(drv)
    /\ PathFrame

NextPath == SvpsEnter \/ SvpsAdmmBlock \/ SvpsAdmmDense \/ SvpsStore

SpecPath == InitPath /\ [][NextPath]_vars

AdmmIdle == prm = <<>> /\ runs = <<>>
PathIdle == drv = <<>>

InitSimplex == SimplexCall /\ AdmmIdle /\ PathIdle

NextSimplex ==
    \/ SimplexInterior /\ UNCHANGED <<prm, runs, drv>>
    \/ SimplexSearch /\ UNCHANGED <<prm, runs, drv>>

SpecSimplex == InitSimplex /\ [][NextSimplex]_vars

----------------------------------------------------------------------------
(* Properties of simplex()                                                 *)

Returned == spc \in {"interior", "search"}

\* 0 < d < len(x)
DInRange == RLt(Zero, sd) /\ RLt(sd, I(Len(sx0)))

RefClip(v) == IF RLt(v, Zero) THEN Zero ELSE IF RGt(v, One) THEN One ELSE v

\* Reference f(theta) = sum_i clip(x_i - theta, 0, 1).
RefF(x, th) == SumSeq([i \in 1..Len(x) |-> RefClip(RSub(x[i], th))])

\* Every theta that can make z = clip(x - theta): fixed by an entry strictly
\* inside (0,1), else an end of the interval the 0/1 entries leave.
ThetaCandidates(x, z) ==
    {RSub(x[i], z[i]) : i \in 1..Len(x)}
        \cup {x[i] : i \in 1..Len(x)}
        \cup {RSub(x[i], One) : i \in 1..Len(x)}

StrictlyInside(z) == {i \in 1..Len(z) : RLt(Zero, z[i]) /\ RLt(z[i], One)}

C10_Bracket ==
    (spc # "call" /\ spc # "interior" /\ DInRange) =>
        /\ spc = "search"
        /\ t \in 2..Len(knots)
        /\ RLt(knots[t - 1], knots[t])
        /\ RGe(simplex_sum(sx0, knots[t - 1]), sd)
        /\ RGt(sd, simplex_sum(sx0, knots[t]))
        /\ simplex_sum(sx0, knots[t]) # simplex_sum(sx0, knots[t - 1])

\* A search over at least four knots whose target is met exactly at a = t[-1].
C10_Witness ==
    /\ spc = "search" /\ DInRange
    /\ Len(knots) >= 4 /\ t \in 3..Len(knots)
    /\ simplex_sum(sx0, knots[t - 1]) = sd

----------------------------------------------------------------------------
(* Properties of admm()                                                    *)

\* Both residuals of the recorded pass h strictly below the tolerance.
BothBelow(h) == RLt(h.rr2, prm.tol2) /\ RLt(h.ss2, prm.tol2)

\* C1: admm returns k in 1..maxiter exactly when pass k is the first whose
\* residuals are both strictly below the tolerance, and -1 exactly when no
\* pass 1..maxiter is; a call returning -1 has run maxiter passes, no call
\* runs more than maxiter passes, goes on after such a pass, or returns 0.
C1_ReturnValue ==
    \A s \in 1..2 :
      LET r == runs[s]
          n == Len(r.hist)
      IN  /\ n <= r.maxiter
          /\ r.pc = "loop" =>
                /\ n < r.maxiter /\ r.niter = n + 1
                /\ \A j \in 1..n : ~BothBelow(r.hist[j])
          /\ r.pc = "returned" =>
                /\ r.ret \in (1..r.maxiter) \cup {-1}
                /\ r.ret # -1 =>
                      /\ n = r.ret
                      /\ BothBelow(r.hist[n])
                      /\ \A j \in 1..(n - 1) : ~BothBelow(r.hist[j])
                /\ r.ret = -1 =>
                      /\ n = r.maxiter
                      /\ \A j \in 1..n : ~BothBelow(r.hist[j])

\* A call that ran out of passes, and one with a larger maxiter that
\* returned the count of a later pass.
C1_Witness ==
    /\ runs[1].pc = "returned" /\ runs[1].ret = -1
    /\ runs[2].pc = "returned" /\ runs[2].ret > runs[1].maxiter

\* The dense matrix a value of a call stands for.
Dense(kind, v) == IF kind = "dense" THEN v ELSE CopyTo(v, ZeroMat, prm.part)

DenseOverBlock == prm.pair[1] = "dense" /\ prm.pair[2] = "block"

\* Pass k of the BlockMat call left what pass k of the dense call left.
SamePass(k) ==
    LET hd == runs[1].hist[k]
        hb == runs[2].hist[k]
    IN  /\ Dense("block", hb.x) = hd.x
        /\ Dense("block", hb.z) = hd.z
        /\ Dense("block", hb.u) = hd.u
        /\ Dense("block", hb.udual) = hd.udual
        /\ hb.pen = hd.pen
        /\ hb.branch = hd.branch

\* C3 as stated: the dense overload and the BlockMat overload on the single
\* block covering the whole matrix, from the same arguments, leave the same
\* x, z, u and penalty after every pass, take the same branch at every pass
\* and return the same value.
C3_DenseBlockSame ==
    (DenseOverBlock /\ prm.part = PartWhole) =>
        /\ \A k \in 1..Len(runs[2].hist) :
              k <= Len(runs[1].hist) /\ SamePass(k)
        /\ runs[2].pc = "returned" =>
              /\ runs[2].ret = runs[1].ret
              /\ Len(runs[2].hist) = Len(runs[1].hist)

\* The dual update of the recorded dense pass h has the same value in the
\* order of the dense overload, (u + x) - z, and of the BlockMat overload,
\* u + (x - z).
DualOrderAgrees(h) ==
    VSub(VAdd(h.u0, h.x), h.zsel) = VAdd(h.u0, VSub(h.x, h.zsel))

AgreesUpTo(k) ==
    \A j \in 1..k : j <= Len(runs[1].hist) => DualOrderAgrees(runs[1].hist[j])

\* The part of C3 that holds: the two overloads leave the same x, z, u and
\* penalty, take the same branch and return the same value for as long as
\* the dual update has the same value in the two orders in which they
\* evaluate it.
C3_SameWhileDualAgrees ==
    (DenseOverBlock /\ prm.part = PartWhole) =>
        /\ \A k \in 1..Len(runs[2].hist) :
              AgreesUpTo(k) => (k <= Len(runs[1].hist) /\ SamePass(k))
        /\ (runs[2].pc = "returned" /\ AgreesUpTo(Len(runs[1].hist))) =>
              /\ runs[2].ret = runs[1].ret
              /\ Len(runs[2].hist) = Len(runs[1].hist)

\* In rounded arithmetic, both overloads returned after at least two
\* passes, one of which moved the penalty, the dual update agreeing in
\* every pass.
C3_Witness ==
    /\ DenseOverBlock /\ prm.part = PartWhole /\ fpbits # 0
    /\ runs[2].pc = "returned" /\ Len(runs[2].hist) >= 2
    /\ AgreesUpTo(Len(runs[1].hist))
    /\ \E k \in 1..Len(runs[2].hist) : runs[2].hist[k].branch \in {"up", "down"}

Last(q) == q[Len(q)]

\* r > 10 s  and  s > 10 r  of the recorded pass h.
PrimalLarge(h) == RGt(h.rr2, RMul(I(100), h.ss2))
DualLarge(h)   == RGt(h.ss2, RMul(I(100), h.rr2))

\* The dual variable the adaptation of pass h leaves, as a dense matrix.
AdaptedDual(kind, h) ==
    LET ud == Dense(kind, h.udual)
    IN  IF PrimalLarge(h) THEN [i \in 1..Len(ud) |-> RDiv(ud[i], prm.adjust)]
        ELSE IF DualLarge(h) THEN [i \in 1..Len(ud) |-> RMul(ud[i], prm.adjust)]
        ELSE ud

\* C4 as stated: a call returning -1 leaves z as the last selection step
\* left it and u as the last dual update u + x - z left it.
C4_DualUntouched ==
    \A s \in 1..2 :
      (runs[s].pc = "returned" /\ runs[s].ret = -1) =>
          /\ runs[s].z = Last(runs[s].hist).zsel
          /\ runs[s].u = Last(runs[s].hist).udual

\* C4 amended: a call returning -1 leaves z as the last selection step left
\* it, and u as the last dual update left it rescaled by the penalty
\* adaptation of that last pass: divided by adjust if r > 10 s, multiplied
\* by adjust if s > 10 r, as it was otherwise.
C4_DualRescaled ==
    \A s \in 1..2 :
      (runs[s].pc = "returned" /\ runs[s].ret = -1) =>
          /\ runs[s].z = Last(runs[s].hist).zsel
          /\ Dense(runs[s].kind, runs[s].u)
                = AdaptedDual(runs[s].kind, Last(runs[s].hist))

\* Both overloads returned -1 after a last pass that rescaled a non-zero u.
C4_Witness ==
    /\ DenseOverBlock
    /\ \A s \in 1..2 :
          /\ runs[s].pc = "returned" /\ runs[s].ret = -1
          /\ Last(runs[s].hist).branch \in {"up", "down"}
          /\ runs[s].u # Last(runs[s].hist).udual

\* C8: in each pass the adaptation runs only if the convergence test of the
\* pass failed; then if r > 10 s the penalty is multiplied by adjust and u
\* divided by it, else if s > 10 r the penalty is divided and u multiplied,
\* else both are as they were.  The converging pass rescales nothing, and z
\* is as the selection step left it.
C8_Adaptation ==
    \A s \in 1..2 : \A k \in 1..Len(runs[s].hist) :
      LET h    == runs[s].hist[k]
          kind == runs[s].kind
      IN  /\ h.z = h.zsel
          /\ ~(PrimalLarge(h) /\ DualLarge(h))
          /\ IF BothBelow(h)
             THEN h.pen = h.pen0 /\ h.u = h.udual /\ h.branch = "return"
             ELSE /\ Dense(kind, h.u) = AdaptedDual(kind, h)
                  /\ PrimalLarge(h) => h.pen = RMul(h.pen0, prm.adjust)
                  /\ (~PrimalLarge(h) /\ DualLarge(h)) =>
                        h.pen = RDiv(h.pen0, prm.adjust)
                  /\ (~PrimalLarge(h) /\ ~DualLarge(h)) => h.pen = h.pen0

\* One call whose passes took all four ways: penalty up, penalty down,
\* nothing changed, and the converging pass.
C8_Witness ==
    \E s \in 1..2 :
      /\ runs[s].pc = "returned"
      /\ \A br \in {"up", "down", "none", "return"} :
            \E k \in 1..Len(runs[s].hist) :
               /\ runs[s].hist[k].branch = br
               /\ br \in {"up", "down"} =>
                     runs[s].hist[k].u # runs[s].hist[k].udual

SameOverloadTwice == prm.pair[3] = 2

\* C6: from the same arguments, if the call with maxiter = M converges
\* returning k, the call with maxiter = 2M returns the same k and leaves the
\* same z, u and penalty; the first M passes are the same for both.
C6_MaxiterDoubling ==
    SameOverloadTwice =>
        /\ \A k \in 1..Len(runs[2].hist) :
              k <= prm.M => /\ k <= Len(runs[1].hist)
                            /\ runs[2].hist[k] = runs[1].hist[k]
        /\ (runs[1].pc = "returned" /\ runs[1].ret # -1
              /\ runs[2].pc = "returned") =>
              /\ runs[2].ret = runs[1].ret
              /\ runs[2].z = runs[1].z
              /\ runs[2].u = runs[1].u
              /\ runs[2].penalty = runs[1].penalty

\* The call with maxiter M converged at its last pass M >= 2 after moving
\* the penalty, and the call with 2M has returned.
C6_Witness ==
    /\ SameOverloadTwice
    /\ runs[1].pc = "returned" /\ runs[1].ret = prm.M /\ prm.M >= 2
    /\ runs[1].penalty # prm.penalty0
    /\ runs[2].pc = "returned"


----------------------------------------------------------------------------
(* Properties of svps()                                                    *)

\* The solves stored so far, and the matrices the driver holds after solve j.
Solve(j) == drv.solves[j]
DenseAfter(j, zs, start) ==
    IF Solve(j).call.kind = "dense" THEN zs
    ELSE CopyTo(zs, start, Solve(j).active)

\* What solve j was handed as _z, _u and admm_penalty by what came before.
WarmStart(j) ==
    IF j = 1
    THEN /\ Solve(1).z_in = ZeroMat /\ Solve(1).u_in = ZeroMat
         /\ Solve(1).pen_in = drv.penalty0
    ELSE /\ Solve(j).z_in = DenseAfter(j - 1, Solve(j - 1).call.z, Solve(j - 1).z_in)
         /\ Solve(j).u_in = DenseAfter(j - 1, Solve(j - 1).call.u, Solve(j - 1).u_in)
         /\ Solve(j).pen_in = Solve(j - 1).call.penalty

\* The first pass of solve j started from what it was handed.
StartedFrom(j) ==
    LET h == Solve(j).call.hist[1]
    IN  /\ h.pen0 = Solve(j).pen_in
        /\ h.z0 = (IF Solve(j).call.kind = "dense" THEN Solve(j).z_in
                   ELSE BlockMap(Solve(j).z_in, Solve(j).active))
        /\ h.u0 = (IF Solve(j).call.kind = "dense" THEN Solve(j).u_in
                   ELSE BlockMap(Solve(j).u_in, Solve(j).active))

\* Solve j ran maxiter passes and none had both residuals below tolerance.
HitMaxiter(j) ==
    /\ Len(Solve(j).call.hist) = drv.maxiter
    /\ \A k \in 1..drv.maxiter :
          ~(RLt(Solve(j).call.hist[k].rr2, drv.tol2)
              /\ RLt(Solve(j).call.hist[k].ss2, drv.tol2))

\* C7: the path runs one solve per index 0..nsol-1, in order of descending
\* lambda, whatever the earlier solves returned; niter[i] is -1 exactly for
\* the solves that hit maxiter; projection, L1, variances and leverages of
\* every index are stored, those of non-converged solves included; each
\* solve starts from the z, u and penalty the previous one left.
C7_PathContinues ==
    LET n == Len(drv.solves)
    IN  /\ n = drv.i /\ n <= drv.nsol
        /\ drv.pc = "done" <=> n = drv.nsol
        /\ \A j \in 1..(drv.nsol - 1) : RGe(drv.lambda[j], drv.lambda[j + 1])
        /\ Len(drv.niter) = n /\ Len(drv.projection) = n /\ Len(drv.L1) = n
        /\ Len(drv.var_row) = n /\ Len(drv.var_col) = n
        /\ Len(drv.leverage_row) = n /\ Len(drv.leverage_col) = n
        /\ \A j \in 1..n :
              /\ Solve(j).lambda = drv.lambda[j]
              /\ Solve(j).call.pc = "returned"
              /\ drv.niter[j] = Solve(j).call.ret
              /\ drv.niter[j] = -1 <=> HitMaxiter(j)
              /\ drv.projection[j] = DenseAfter(j, Solve(j).call.z, ZeroMat)
              /\ drv.leverage_row[j] = LeverageRow(drv.projection[j])
              /\ drv.leverage_col[j] = LeverageCol(drv.projection[j])
              /\ fpbits = 0 => drv.L1[j] = SumAbs(drv.projection[j])
              /\ WarmStart(j) /\ StartedFrom(j)
        /\ n > 0 =>
              /\ drv.z = DenseAfter(n, Solve(n).call.z, Solve(n).z_in)
              /\ drv.u = DenseAfter(n, Solve(n).call.u, Solve(n).u_in)
              /\ drv.admm_penalty = Solve(n).call.penalty

\* A finished path of two solves whose first solve hit maxiter and left a
\* non-zero z, a rescaled penalty and a stored non-zero projection.
C7_Witness ==
    /\ drv.pc = "done" /\ drv.nsol = 2 /\ Len(drv.solves) = 2
    /\ drv.niter[1] = -1
    /\ drv.projection[1] # ZeroMat
    /\ Solve(2).z_in # ZeroMat
    /\ Solve(2).pen_in # drv.penalty0

\* Every penalty value the path has held: the driver's, the one of the call
\* in progress, and the one before and after every pass of every solve.
PathCalls ==
    {Solve(j).call : j \in 1..Len(drv.solves)}
        \cup (IF drv.pc = "admm" THEN {drv.call} ELSE {})
PathPenalties ==
    {drv.admm_penalty, drv.penalty0}
        \cup {c.penalty : c \in PathCalls}
        \cup UNION {UNION {{c.hist[k].pen0, c.hist[k].pen} :
                               k \in 1..Len(c.hist)} : c \in PathCalls}
\* No path makes more passes than nsol * maxiter.
MaxPasses == MaxSol * MaxIter

\* p = p0 * adjust^k, for an integral adjust.
ScaledBy(p, p0, adj, k) ==
    IF k >= 0 THEN p[1] * p0[2] = p0[1] * p[2] * (adj ^ k)
    ELSE p[1] * p0[2] * (adj ^ (-k)) = p0[1] * p[2]

\* C9: the initial penalty is > 0 and adjust > 1; every penalty value of the
\* path is > 0 and equals the initial value times adjust^k for an integer k.
C9_PenaltyPositive ==
    /\ RGt(drv.penalty0, Zero)
    /\ RGt(drv.admm_adjust, One) /\ drv.admm_adjust[2] = 1
    /\ drv.penalty0 = InitialPenalty(drv.gs)
    /\ \A p \in PathPenalties :
          /\ RGt(p, Zero)
          /\ \E k \in (-MaxPasses)..MaxPasses :
                ScaledBy(p, drv.penalty0, drv.admm_adjust[1], k)

\* A finished path started from the threshold of the second graph-sequence
\* entry, whose penalty was divided by adjust and is left below that start.
C9_Witness ==
    /\ Len(drv.gs) > 1 /\ drv.pc = "done"
    /\ RLt(drv.admm_penalty, drv.penalty0)
    /\ \E c \in PathCalls : \E k \in 1..Len(c.hist) : c.hist[k].branch = "down"

============================================================================
